---- MODULE Spec2Model ----
(***************************************************************************)
(* The review service: the gRPC handlers of ReviewService                 *)
(* (internal/service) over the storage port PostgresRepository            *)
(* (internal/repository), with the table "review" behind it.              *)
(*                                                                         *)
(* One request runs on one handler goroutine.  The handler's local work   *)
(* is atomic with the storage call that follows it; the steps of a        *)
(* request are its entry (cancellation check and validation) and each of  *)
(* its storage-port calls.  The context of a request in flight can be     *)
(* cancelled between any two steps: each storage step takes as input      *)
(* whether ctx.Done() is closed by the time the repository looks at it.   *)
(***************************************************************************)
EXTENDS Integers, Sequences, FiniteSets, TLC

VARIABLES
    rows,        \* table "review": primary key -> row
    seq,         \* next value of the primary key's sequence
    now,         \* wall clock, in half seconds
    pc,          \* per goroutine: "idle", the pending storage call, "done"
    req,         \* per goroutine: the request message
    ctxDone,     \* per goroutine: ctx.Done() is closed
    gormReview,  \* per goroutine: the handler's local *GormReview
    calls,       \* per goroutine: storage-port calls made by the request
    errs,        \* per goroutine: errors those calls returned
    code,        \* per goroutine: status code of the finished request
    resp,        \* per goroutine: the reviews of the response message
    pre          \* per goroutine: the table when the request was invoked

vars == <<rows, seq, now, pc, req, ctxDone, gormReview, calls, errs, code, resp, pre>>

(***************************************************************************)
(* Bounds and input domains                                                *)
(***************************************************************************)
MaxClock == 3

MaxRows == 2

Goroutines == {"g1", "g2"}

\* Spec serves one request at a time.
Serial == {"g1"}

MediaIds == {7, 8}

UserIds == {3, 4}

Texts == {"great", "fine"}

Contents == Texts \cup {""}

Ratings == {-1, 0, 1, 10, 11}

ReqIds == 1 .. (MaxRows + 1)

(***************************************************************************)
(* Data                                                                    *)
(***************************************************************************)
\* The zero value of GormReview.
ZeroReview ==
    [id |-> 0, mediaId |-> 0, userId |-> 0, content |-> "", rating |-> 0,
     createdAt |-> 0, updatedAt |-> 0]

\* A request message; the fields an operation does not have are zero.
Request(op, id, mediaId, userId, content, rating) ==
    [op |-> op, id |-> id, mediaId |-> mediaId, userId |-> userId,
     content |-> content, rating |-> rating]

NoRequest == Request("none", 0, 0, 0, "", 0)

\* time.Time.Format(time.RFC3339): whole seconds, the fraction is dropped.
FormatRFC3339(t) == t \div 2

\* The integer conversions (uint to int64, int to int32) keep the value of the
\* small non-negative keys and the ratings of the model.
ConvertToProtoReview(g) ==
    [id |-> g.id, mediaId |-> g.mediaId, userId |-> g.userId,
     content |-> g.content, rating |-> g.rating,
     createdAt |-> FormatRFC3339(g.createdAt),
     updatedAt |-> FormatRFC3339(g.updatedAt)]

ConvertAll(gs) == {ConvertToProtoReview(g) : g \in gs}

\* The range check without its upper end.
RatingOutOfRangeNoUpperBound(r) == r < 1

\* Off by one at the upper end of the range.
RatingOutOfRangeOffByOne(r) == r < 1 \/ r >= 10

\* The range check of Create, Update and GetByRating.
RatingOutOfRange(r) == r < 1 \/ r > 10

(***************************************************************************)
(* Storage port: PostgresRepository.  Each operation first looks at the   *)
(* context, then runs one statement; dbErr is the statement failing.      *)
(***************************************************************************)
ErrCanceled == "context canceled"

ErrReviewNotFound == "review not found"

ErrDB == "db error"

\* The insert whose failure is reported after the row went in.
RepoCreateFailingAfterInsert(done, dbErr, tbl, next, t, g) ==
    IF done THEN [err |-> ErrCanceled, review |-> g, rows |-> tbl, seq |-> next]
    ELSE LET row == [g EXCEPT !.id = next, !.createdAt = t, !.updatedAt = t]
         IN [err |-> IF dbErr THEN ErrDB ELSE "nil", review |-> row,
             rows |-> [i \in DOMAIN tbl \cup {next} |-> IF i = next THEN row ELSE tbl[i]],
             seq |-> next + 1]

\* The insert not handing the assigned key back to the caller's record.
RepoCreateKeyNotReturned(done, dbErr, tbl, next, t, g) ==
    IF done THEN [err |-> ErrCanceled, review |-> g, rows |-> tbl, seq |-> next]
    ELSE IF dbErr THEN [err |-> ErrDB, review |-> g, rows |-> tbl, seq |-> next]
    ELSE LET row == [g EXCEPT !.id = next, !.createdAt = t, !.updatedAt = t]
         IN [err |-> "nil", review |-> [row EXCEPT !.id = 0],
             rows |-> [i \in DOMAIN tbl \cup {next} |-> IF i = next THEN row ELSE tbl[i]],
             seq |-> next + 1]

\* db.Create: the insert assigns the next key of the sequence and both
\* timestamps, and hands them back in the caller's record.
RepoCreate(done, dbErr, tbl, next, t, g) ==
    IF done THEN [err |-> ErrCanceled, review |-> g, rows |-> tbl, seq |-> next]
    ELSE IF dbErr THEN [err |-> ErrDB, review |-> g, rows |-> tbl, seq |-> next]
    ELSE LET row == [g EXCEPT !.id = next, !.createdAt = t, !.updatedAt = t]
         IN [err |-> "nil", review |-> row,
             rows |-> [i \in DOMAIN tbl \cup {next} |-> IF i = next THEN row ELSE tbl[i]],
             seq |-> next + 1]

\* The lookup handing gorm's own error through instead of the sentinel.
RepoGetByIDRawError(done, dbErr, tbl, id) ==
    IF done THEN [err |-> ErrCanceled, review |-> ZeroReview]
    ELSE IF dbErr THEN [err |-> ErrDB, review |-> ZeroReview]
    ELSE IF id \notin DOMAIN tbl THEN [err |-> "record not found", review |-> ZeroReview]
    ELSE [err |-> "nil", review |-> tbl[id]]

RepoGetByID(done, dbErr, tbl, id) ==
    IF done THEN [err |-> ErrCanceled, review |-> ZeroReview]
    ELSE IF dbErr THEN [err |-> ErrDB, review |-> ZeroReview]
    ELSE IF id \notin DOMAIN tbl THEN [err |-> ErrReviewNotFound, review |-> ZeroReview]
    ELSE [err |-> "nil", review |-> tbl[id]]

\* The save stamping the row as newly created.
RepoUpdateAsNewRow(done, dbErr, tbl, t, g) ==
    IF done THEN [err |-> ErrCanceled, review |-> g, rows |-> tbl]
    ELSE IF dbErr THEN [err |-> ErrDB, review |-> g, rows |-> tbl]
    ELSE LET row == [g EXCEPT !.createdAt = t, !.updatedAt = t]
         IN [err |-> "nil", review |-> row,
             rows |-> [i \in DOMAIN tbl \cup {g.id} |-> IF i = g.id THEN row ELSE tbl[i]]]

\* The save writing the rating column only.
RepoUpdateRatingColumnOnly(done, dbErr, tbl, t, g) ==
    IF done THEN [err |-> ErrCanceled, review |-> g, rows |-> tbl]
    ELSE IF dbErr THEN [err |-> ErrDB, review |-> g, rows |-> tbl]
    ELSE LET row == [g EXCEPT !.updatedAt = t]
             old == IF g.id \in DOMAIN tbl THEN tbl[g.id] ELSE g
         IN [err |-> "nil", review |-> row,
             rows |-> [i \in DOMAIN tbl \cup {g.id} |->
                          IF i = g.id THEN [old EXCEPT !.rating = g.rating, !.updatedAt = t]
                          ELSE tbl[i]]]

\* db.Save: UPDATE of every column by primary key, updated_at set to the
\* current time; when no row was updated the row is inserted.
RepoUpdate(done, dbErr, tbl, t, g) ==
    IF done THEN [err |-> ErrCanceled, review |-> g, rows |-> tbl]
    ELSE IF dbErr THEN [err |-> ErrDB, review |-> g, rows |-> tbl]
    ELSE LET row == [g EXCEPT !.updatedAt = t]
         IN [err |-> "nil", review |-> row,
             rows |-> [i \in DOMAIN tbl \cup {g.id} |-> IF i = g.id THEN row ELSE tbl[i]]]

\* The delete without its WHERE clause.
RepoDeleteAllRows(done, dbErr, tbl, id) ==
    IF done THEN [err |-> ErrCanceled, rows |-> tbl]
    ELSE IF dbErr THEN [err |-> ErrDB, rows |-> tbl]
    ELSE [err |-> "nil", rows |-> <<>>]

\* The delete running its statement without looking at the context first.
RepoDeleteNoContextCheck(done, dbErr, tbl, id) ==
    IF dbErr THEN [err |-> ErrDB, rows |-> tbl]
    ELSE [err |-> "nil", rows |-> [i \in DOMAIN tbl \ {id} |-> tbl[i]]]

\* The delete reporting success without removing the row.
RepoDeleteKeepsRow(done, dbErr, tbl, id) ==
    IF done THEN [err |-> ErrCanceled, rows |-> tbl]
    ELSE IF dbErr THEN [err |-> ErrDB, rows |-> tbl]
    ELSE [err |-> "nil", rows |-> tbl]

\* db.Delete by primary key: no error when no row matches.
RepoDelete(done, dbErr, tbl, id) ==
    IF done THEN [err |-> ErrCanceled, rows |-> tbl]
    ELSE IF dbErr THEN [err |-> ErrDB, rows |-> tbl]
    ELSE [err |-> "nil", rows |-> [i \in DOMAIN tbl \ {id} |-> tbl[i]]]

\* db.Find with no ORDER BY: the rows in no particular order.
RepoFind(done, dbErr, matching) ==
    IF done THEN [err |-> ErrCanceled, reviews |-> {}]
    ELSE IF dbErr THEN [err |-> ErrDB, reviews |-> {}]
    ELSE [err |-> "nil", reviews |-> matching]

RepoGetAll(done, dbErr, tbl) ==
    RepoFind(done, dbErr, {tbl[i] : i \in DOMAIN tbl})

RepoGetByRating(done, dbErr, tbl, rating) ==
    RepoFind(done, dbErr, {tbl[i] : i \in {j \in DOMAIN tbl : tbl[j].rating = rating}})

\* The query by user filtering on the media column.
RepoGetByUserOnMediaColumn(done, dbErr, tbl, userId) ==
    RepoFind(done, dbErr, {tbl[i] : i \in {j \in DOMAIN tbl : tbl[j].mediaId = userId}})

RepoGetByUser(done, dbErr, tbl, userId) ==
    RepoFind(done, dbErr, {tbl[i] : i \in {j \in DOMAIN tbl : tbl[j].userId = userId}})

RepoGetByMedia(done, dbErr, tbl, mediaId) ==
    RepoFind(done, dbErr, {tbl[i] : i \in {j \in DOMAIN tbl : tbl[j].mediaId = mediaId}})

(***************************************************************************)
(* Handler plumbing                                                        *)
(***************************************************************************)
\* The handler returns: status code and the reviews of the response.
Reply(g, c, reviews) ==
    /\ pc' = [pc EXCEPT ![g] = "done"]
    /\ code' = [code EXCEPT ![g] = c]
    /\ resp' = [resp EXCEPT ![g] = reviews]

\* The handler goes on to its next storage call.
Goto(g, label) ==
    /\ pc' = [pc EXCEPT ![g] = label]
    /\ UNCHANGED <<code, resp>>

\* A storage-port call of the request returned err.
Called(g, done, method, err) ==
    /\ ctxDone' = [ctxDone EXCEPT ![g] = done]
    /\ calls' = [calls EXCEPT ![g] = Append(@, method)]
    /\ errs' = [errs EXCEPT ![g] = Append(@, err)]

\* The entry validating the request before it looks at the context.
EnterValidatingFirst(g, r, cancelled, invalid, label) ==
    /\ pc[g] = "idle"
    /\ req' = [req EXCEPT ![g] = r]
    /\ ctxDone' = [ctxDone EXCEPT ![g] = cancelled]
    /\ pre' = [pre EXCEPT ![g] = rows]
    /\ IF invalid THEN Reply(g, "InvalidArgument", {})
       ELSE IF cancelled THEN Reply(g, "Canceled", {})
       ELSE Goto(g, label)
    /\ UNCHANGED <<rows, seq, now, gormReview, calls, errs>>

\* Entry of a handler: checkContextCancelled, then the validation the
\* handler does before its first storage call.
Enter(g, r, cancelled, invalid, label) ==
    /\ pc[g] = "idle"
    /\ req' = [req EXCEPT ![g] = r]
    /\ ctxDone' = [ctxDone EXCEPT ![g] = cancelled]
    /\ pre' = [pre EXCEPT ![g] = rows]
    /\ IF cancelled THEN Reply(g, "Canceled", {})
       ELSE IF invalid THEN Reply(g, "InvalidArgument", {})
       ELSE Goto(g, label)
    /\ UNCHANGED <<rows, seq, now, gormReview, calls, errs>>

(***************************************************************************)
(* ReviewService.Create                                                    *)
(***************************************************************************)
Create(g, r, cancelled) ==
    /\ r.op = "Create"
    /\ seq <= MaxRows
    /\ Enter(g, r, cancelled, RatingOutOfRange(r.rating), "Create")

CreateStore(g, done, dbErr) ==
    /\ pc[g] = "Create"
    /\ LET new == [ZeroReview EXCEPT !.mediaId = req[g].mediaId, !.userId = req[g].userId,
                                     !.content = req[g].content, !.rating = req[g].rating]
           res == RepoCreate(done, dbErr, rows, seq, now, new)
       IN /\ Called(g, done, "Create", res.err)
          /\ rows' = res.rows
          /\ seq' = res.seq
          /\ gormReview' = [gormReview EXCEPT ![g] = res.review]
          /\ IF res.err # "nil" THEN Reply(g, "Internal", {})
             ELSE Reply(g, "OK", {ConvertToProtoReview(res.review)})
    /\ UNCHANGED <<now, req, pre>>

(***************************************************************************)
(* ReviewService.GetByID                                                   *)
(***************************************************************************)
GetByID(g, r, cancelled) ==
    /\ r.op = "GetByID"
    /\ Enter(g, r, cancelled, FALSE, "GetByID")

\* The handler reporting every failure of the lookup as NotFound.
GetByIDFetchAllNotFound(g, done, dbErr) ==
    /\ pc[g] = "GetByID"
    /\ LET res == RepoGetByID(done, dbErr, rows, req[g].id)
       IN /\ Called(g, done, "GetByID", res.err)
          /\ gormReview' = [gormReview EXCEPT ![g] = res.review]
          /\ IF res.err # "nil" THEN Reply(g, "NotFound", {})
             ELSE Reply(g, "OK", {ConvertToProtoReview(res.review)})
    /\ UNCHANGED <<rows, seq, now, req, pre>>

GetByIDFetch(g, done, dbErr) ==
    /\ pc[g] = "GetByID"
    /\ LET res == RepoGetByID(done, dbErr, rows, req[g].id)
       IN /\ Called(g, done, "GetByID", res.err)
          /\ gormReview' = [gormReview EXCEPT ![g] = res.review]
          /\ IF res.err = ErrReviewNotFound THEN Reply(g, "NotFound", {})
             ELSE IF res.err # "nil" THEN Reply(g, "Internal", {})
             ELSE Reply(g, "OK", {ConvertToProtoReview(res.review)})
    /\ UNCHANGED <<rows, seq, now, req, pre>>

(***************************************************************************)
(* ReviewService.Update                                                    *)
(***************************************************************************)
\* The merge taking the request's content even when it is empty.
MergeContentAlways(fetched, r) ==
    [fetched EXCEPT !.content = r.content,
                    !.rating = IF r.rating # 0 THEN r.rating ELSE @]

\* The fetched record with the request's fields merged in.
Merge(fetched, r) ==
    [fetched EXCEPT !.content = IF r.content # "" THEN r.content ELSE @,
                    !.rating = IF r.rating # 0 THEN r.rating ELSE @]

Update(g, r, cancelled) ==
    /\ r.op = "Update"
    /\ Enter(g, r, cancelled, FALSE, "UpdateFetch")

\* The handler saving the new content before it validates the rating.
UpdateFetchSavingBeforeValidation(g, done, dbErr) ==
    /\ pc[g] = "UpdateFetch"
    /\ LET res == RepoGetByID(done, dbErr, rows, req[g].id)
           withContent == [res.review EXCEPT !.content =
                              IF req[g].content # "" THEN req[g].content ELSE @]
       IN IF res.err = "nil" /\ req[g].rating # 0 /\ RatingOutOfRange(req[g].rating)
          THEN LET saved == RepoUpdate(done, dbErr, rows, now, withContent)
               IN /\ ctxDone' = [ctxDone EXCEPT ![g] = done]
                  /\ calls' = [calls EXCEPT ![g] = @ \o <<"GetByID", "Update">>]
                  /\ errs' = [errs EXCEPT ![g] = @ \o <<res.err, saved.err>>]
                  /\ rows' = saved.rows
                  /\ gormReview' = [gormReview EXCEPT ![g] = saved.review]
                  /\ Reply(g, "InvalidArgument", {})
          ELSE /\ Called(g, done, "GetByID", res.err)
               /\ UNCHANGED rows
               /\ IF res.err = ErrReviewNotFound
                  THEN Reply(g, "NotFound", {}) /\ UNCHANGED gormReview
                  ELSE IF res.err # "nil"
                  THEN Reply(g, "Internal", {}) /\ UNCHANGED gormReview
                  ELSE /\ Goto(g, "UpdateSave")
                       /\ gormReview' = [gormReview EXCEPT ![g] = Merge(res.review, req[g])]
    /\ UNCHANGED <<seq, now, req, pre>>

UpdateFetch(g, done, dbErr) ==
    /\ pc[g] = "UpdateFetch"
    /\ LET res == RepoGetByID(done, dbErr, rows, req[g].id)
       IN /\ Called(g, done, "GetByID", res.err)
          /\ IF res.err = ErrReviewNotFound
             THEN Reply(g, "NotFound", {}) /\ UNCHANGED gormReview
             ELSE IF res.err # "nil"
             THEN Reply(g, "Internal", {}) /\ UNCHANGED gormReview
             ELSE IF req[g].rating # 0 /\ RatingOutOfRange(req[g].rating)
             THEN /\ Reply(g, "InvalidArgument", {})
                  /\ gormReview' = [gormReview EXCEPT ![g] =
                        [res.review EXCEPT !.content =
                            IF req[g].content # "" THEN req[g].content ELSE @]]
             ELSE /\ Goto(g, "UpdateSave")
                  /\ gormReview' = [gormReview EXCEPT ![g] = Merge(res.review, req[g])]
    /\ UNCHANGED <<rows, seq, now, req, pre>>

UpdateSave(g, done, dbErr) ==
    /\ pc[g] = "UpdateSave"
    /\ LET res == RepoUpdate(done, dbErr, rows, now, gormReview[g])
       IN /\ Called(g, done, "Update", res.err)
          /\ rows' = res.rows
          /\ gormReview' = [gormReview EXCEPT ![g] = res.review]
          /\ IF res.err # "nil" THEN Reply(g, "Internal", {})
             ELSE Reply(g, "OK", {ConvertToProtoReview(res.review)})
    /\ UNCHANGED <<seq, now, req, pre>>

(***************************************************************************)
(* ReviewService.Delete                                                    *)
(***************************************************************************)
Delete(g, r, cancelled) ==
    /\ r.op = "Delete"
    /\ Enter(g, r, cancelled, FALSE, "DeleteFetch")

\* The existence check letting a missing record through to the delete.
DeleteFetchNoExistenceCheck(g, done, dbErr) ==
    /\ pc[g] = "DeleteFetch"
    /\ LET res == RepoGetByID(done, dbErr, rows, req[g].id)
       IN /\ Called(g, done, "GetByID", res.err)
          /\ IF res.err \notin {"nil", ErrReviewNotFound} THEN Reply(g, "Internal", {})
             ELSE Goto(g, "DeleteRemove")
    /\ UNCHANGED <<rows, seq, now, req, gormReview, pre>>

DeleteFetch(g, done, dbErr) ==
    /\ pc[g] = "DeleteFetch"
    /\ LET res == RepoGetByID(done, dbErr, rows, req[g].id)
       IN /\ Called(g, done, "GetByID", res.err)
          /\ IF res.err = ErrReviewNotFound THEN Reply(g, "NotFound", {})
             ELSE IF res.err # "nil" THEN Reply(g, "Internal", {})
             ELSE Goto(g, "DeleteRemove")
    /\ UNCHANGED <<rows, seq, now, req, gormReview, pre>>

DeleteRemove(g, done, dbErr) ==
    /\ pc[g] = "DeleteRemove"
    /\ LET res == RepoDelete(done, dbErr, rows, req[g].id)
       IN /\ Called(g, done, "Delete", res.err)
          /\ rows' = res.rows
          /\ IF res.err # "nil" THEN Reply(g, "Internal", {})
             ELSE Reply(g, "OK", {})
    /\ UNCHANGED <<seq, now, req, gormReview, pre>>

(***************************************************************************)
(* The list handlers                                                       *)
(***************************************************************************)
\* The part the four list handlers share after the storage call.
ListReply(g, done, method, res) ==
    /\ Called(g, done, method, res.err)
    /\ IF res.err # "nil" THEN Reply(g, "Internal", {})
       ELSE Reply(g, "OK", ConvertAll(res.reviews))
    /\ UNCHANGED <<rows, seq, now, req, gormReview, pre>>

GetAll(g, r, cancelled) ==
    /\ r.op = "GetAll"
    /\ Enter(g, r, cancelled, FALSE, "GetAll")

GetAllQuery(g, done, dbErr) ==
    /\ pc[g] = "GetAll"
    /\ ListReply(g, done, "GetAll", RepoGetAll(done, dbErr, rows))

GetByRating(g, r, cancelled) ==
    /\ r.op = "GetByRating"
    /\ Enter(g, r, cancelled, RatingOutOfRange(r.rating), "GetByRating")

GetByRatingQuery(g, done, dbErr) ==
    /\ pc[g] = "GetByRating"
    /\ ListReply(g, done, "GetByRating", RepoGetByRating(done, dbErr, rows, req[g].rating))

GetByUser(g, r, cancelled) ==
    /\ r.op = "GetByUser"
    /\ Enter(g, r, cancelled, FALSE, "GetByUser")

GetByUserQuery(g, done, dbErr) ==
    /\ pc[g] = "GetByUser"
    /\ ListReply(g, done, "GetByUser", RepoGetByUser(done, dbErr, rows, req[g].userId))

GetByMedia(g, r, cancelled) ==
    /\ r.op = "GetByMedia"
    /\ Enter(g, r, cancelled, FALSE, "GetByMedia")

GetByMediaQuery(g, done, dbErr) ==
    /\ pc[g] = "GetByMedia"
    /\ ListReply(g, done, "GetByMedia", RepoGetByMedia(done, dbErr, rows, req[g].mediaId))

(***************************************************************************)
(* Environment                                                             *)
(***************************************************************************)
\* The response is handed to the transport; the goroutine ends.
Return(g) ==
    /\ pc[g] = "done"
    /\ pc' = [pc EXCEPT ![g] = "idle"]
    /\ req' = [req EXCEPT ![g] = NoRequest]
    /\ ctxDone' = [ctxDone EXCEPT ![g] = FALSE]
    /\ gormReview' = [gormReview EXCEPT ![g] = ZeroReview]
    /\ calls' = [calls EXCEPT ![g] = <<>>]
    /\ errs' = [errs EXCEPT ![g] = <<>>]
    /\ code' = [code EXCEPT ![g] = "none"]
    /\ resp' = [resp EXCEPT ![g] = {}]
    /\ pre' = [pre EXCEPT ![g] = <<>>]
    /\ UNCHANGED <<rows, seq, now>>

Tick ==
    /\ now < MaxClock
    /\ now' = now + 1
    /\ UNCHANGED <<rows, seq, pc, req, ctxDone, gormReview, calls, errs, code, resp, pre>>

(***************************************************************************)
(* Requests                                                                *)
(***************************************************************************)
CreateRequests ==
    {Request("Create", 0, m, u, c, r) : m \in MediaIds, u \in UserIds, c \in Texts, r \in Ratings}

UpdateRequests ==
    {Request("Update", i, 0, 0, c, r) : i \in ReqIds, c \in Contents, r \in Ratings}

Requests ==
    CreateRequests \cup UpdateRequests
    \cup {Request("GetByID", i, 0, 0, "", 0) : i \in ReqIds}
    \cup {Request("Delete", i, 0, 0, "", 0) : i \in ReqIds}
    \cup {Request("GetAll", 0, 0, 0, "", 0)}
    \cup {Request("GetByRating", 0, 0, 0, "", r) : r \in Ratings}
    \cup {Request("GetByUser", 0, 0, u, "", 0) : u \in UserIds}
    \cup {Request("GetByMedia", 0, m, 0, "", 0) : m \in MediaIds}

(***************************************************************************)
(* Specification                                                           *)
(***************************************************************************)
Init ==
    /\ rows = <<>>
    /\ seq = 1
    /\ now = 0
    /\ pc = [g \in Goroutines |-> "idle"]
    /\ req = [g \in Goroutines |-> NoRequest]
    /\ ctxDone = [g \in Goroutines |-> FALSE]
    /\ gormReview = [g \in Goroutines |-> ZeroReview]
    /\ calls = [g \in Goroutines |-> <<>>]
    /\ errs = [g \in Goroutines |-> <<>>]
    /\ code = [g \in Goroutines |-> "none"]
    /\ resp = [g \in Goroutines |-> {}]
    /\ pre = [g \in Goroutines |-> <<>>]

Next ==
    \/ \E g \in Serial, r \in Requests, cancelled \in BOOLEAN : Create(g, r, cancelled)
    \/ \E g \in Serial, r \in Requests, cancelled \in BOOLEAN : GetByID(g, r, cancelled)
    \/ \E g \in Serial, r \in Requests, cancelled \in BOOLEAN : Update(g, r, cancelled)
    \/ \E g \in Serial, r \in Requests, cancelled \in BOOLEAN : Delete(g, r, cancelled)
    \/ \E g \in Serial, r \in Requests, cancelled \in BOOLEAN : GetAll(g, r, cancelled)
    \/ \E g \in Serial, r \in Requests, cancelled \in BOOLEAN : GetByRating(g, r, cancelled)
    \/ \E g \in Serial, r \in Requests, cancelled \in BOOLEAN : GetByUser(g, r, cancelled)
    \/ \E g \in Serial, r \in Requests, cancelled \in BOOLEAN : GetByMedia(g, r, cancelled)
    \/ \E g \in Serial, done \in BOOLEAN, dbErr \in BOOLEAN : CreateStore(g, done, dbErr)
    \/ \E g \in Serial, done \in BOOLEAN, dbErr \in BOOLEAN : GetByIDFetch(g, done, dbErr)
    \/ \E g \in Serial, done \in BOOLEAN, dbErr \in BOOLEAN : UpdateFetch(g, done, dbErr)
    \/ \E g \in Serial, done \in BOOLEAN, dbErr \in BOOLEAN : UpdateSave(g, done, dbErr)
    \/ \E g \in Serial, done \in BOOLEAN, dbErr \in BOOLEAN : DeleteFetch(g, done, dbErr)
    \/ \E g \in Serial, done \in BOOLEAN, dbErr \in BOOLEAN : DeleteRemove(g, done, dbErr)
    \/ \E g \in Serial, done \in BOOLEAN, dbErr \in BOOLEAN : GetAllQuery(g, done, dbErr)
    \/ \E g \in Serial, done \in BOOLEAN, dbErr \in BOOLEAN : GetByRatingQuery(g, done, dbErr)
    \/ \E g \in Serial, done \in BOOLEAN, dbErr \in BOOLEAN : GetByUserQuery(g, done, dbErr)
    \/ \E g \in Serial, done \in BOOLEAN, dbErr \in BOOLEAN : GetByMediaQuery(g, done, dbErr)
    \/ \E g \in Serial : Return(g)

Spec == Init /\ [][Next]_vars

(***************************************************************************)
(* The scenario of the specification's section 8: one caller, each request *)
(* issued once the state the previous one leaves is reached, contexts not  *)
(* cancelled, no statement failing, the clock running.                     *)
(***************************************************************************)
Scenario ==
    <<Request("Create", 0, 7, 3, "great", 9),
      Request("GetByID", 1, 0, 0, "", 0),
      Request("Update", 1, 0, 0, "", 5),
      Request("GetByRating", 0, 0, 0, "", 5),
      Request("Delete", 1, 0, 0, "", 0),
      Request("GetByID", 1, 0, 0, "", 0)>>

\* The table holds exactly the scenario's record, with the given rating.
HoldsOnly(rating) ==
    /\ DOMAIN rows = {1}
    /\ rows[1].rating = rating

ScenarioAt(i) ==
    CASE i = 1 -> rows = <<>> /\ seq = 1
      [] i \in {2, 3} -> HoldsOnly(9)
      [] i \in {4, 5} -> HoldsOnly(5)
      [] i = 6 -> rows = <<>> /\ seq = 2

NextScenario ==
    \/ ScenarioAt(1) /\ Create("g1", Scenario[1], FALSE)
    \/ \E i \in {2, 6} : ScenarioAt(i) /\ GetByID("g1", Scenario[i], FALSE)
    \/ ScenarioAt(3) /\ Update("g1", Scenario[3], FALSE)
    \/ ScenarioAt(4) /\ GetByRating("g1", Scenario[4], FALSE)
    \/ ScenarioAt(5) /\ Delete("g1", Scenario[5], FALSE)
    \/ CreateStore("g1", FALSE, FALSE)
    \/ GetByIDFetch("g1", FALSE, FALSE)
    \/ UpdateFetch("g1", FALSE, FALSE)
    \/ UpdateSave("g1", FALSE, FALSE)
    \/ GetByRatingQuery("g1", FALSE, FALSE)
    \/ DeleteFetch("g1", FALSE, FALSE)
    \/ DeleteRemove("g1", FALSE, FALSE)
    \/ Return("g1")
    \/ Tick

SpecScenario == Init /\ [][NextScenario]_vars

(***************************************************************************)
(* Concurrent callers: the gRPC server runs every request in a goroutine  *)
(* of its own, so the storage calls of two requests interleave.  Two      *)
(* callers work on the record of key 1: they create it, change its content *)
(* only, change its rating only (within and above the range), and delete  *)
(* it; contexts are cancelled and statements fail as in Spec.              *)
(***************************************************************************)
ConcurrentRequests ==
    {Request("Create", 0, 7, 3, "great", 1),
     Request("Update", 1, 0, 0, "fine", 0),
     Request("Update", 1, 0, 0, "", 10),
     Request("Update", 1, 0, 0, "", 11),
     Request("Delete", 1, 0, 0, "", 0)}

NextConcurrent ==
    \/ \E g \in Goroutines, r \in ConcurrentRequests, cancelled \in BOOLEAN : Create(g, r, cancelled)
    \/ \E g \in Goroutines, r \in ConcurrentRequests, cancelled \in BOOLEAN : Update(g, r, cancelled)
    \/ \E g \in Goroutines, r \in ConcurrentRequests, cancelled \in BOOLEAN : Delete(g, r, cancelled)
    \/ \E g \in Goroutines, done \in BOOLEAN, dbErr \in BOOLEAN : CreateStore(g, done, dbErr)
    \/ \E g \in Goroutines, done \in BOOLEAN, dbErr \in BOOLEAN : UpdateFetch(g, done, dbErr)
    \/ \E g \in Goroutines, done \in BOOLEAN, dbErr \in BOOLEAN : UpdateSave(g, done, dbErr)
    \/ \E g \in Goroutines, done \in BOOLEAN, dbErr \in BOOLEAN : DeleteFetch(g, done, dbErr)
    \/ \E g \in Goroutines, done \in BOOLEAN, dbErr \in BOOLEAN : DeleteRemove(g, done, dbErr)
    \/ \E g \in Goroutines : Return(g)

SpecConcurrent == Init /\ [][NextConcurrent]_vars

(***************************************************************************)
(* One caller with the clock running: the requests of the concurrent      *)
(* callers issued one after the other while time passes between the steps, *)
(* so that the two timestamps of a record differ.                          *)
(***************************************************************************)
NextTimed ==
    \/ \E r \in ConcurrentRequests, cancelled \in BOOLEAN : Create("g1", r, cancelled)
    \/ \E r \in ConcurrentRequests, cancelled \in BOOLEAN : Update("g1", r, cancelled)
    \/ \E r \in ConcurrentRequests, cancelled \in BOOLEAN : Delete("g1", r, cancelled)
    \/ \E done \in BOOLEAN, dbErr \in BOOLEAN : CreateStore("g1", done, dbErr)
    \/ \E done \in BOOLEAN, dbErr \in BOOLEAN : UpdateFetch("g1", done, dbErr)
    \/ \E done \in BOOLEAN, dbErr \in BOOLEAN : UpdateSave("g1", done, dbErr)
    \/ \E done \in BOOLEAN, dbErr \in BOOLEAN : DeleteFetch("g1", done, dbErr)
    \/ \E done \in BOOLEAN, dbErr \in BOOLEAN : DeleteRemove("g1", done, dbErr)
    \/ Return("g1")
    \/ Tick

SpecTimed == Init /\ [][NextTimed]_vars

(***************************************************************************)
(* Properties                                                              *)
(***************************************************************************)
\* The request of goroutine g has returned.
Done(g) == pc[g] = "done"

\* A statement of the request failed in the database.
DbFailed(g) == \E i \in DOMAIN errs[g] : errs[g][i] = ErrDB

\* The request's first storage call was GetByID and it returned the record.
Fetched(g) == Len(errs[g]) >= 1 /\ calls[g][1] = "GetByID" /\ errs[g][1] = "nil"

\* C1: a handler entered with a context that is already cancelled returns
\* Canceled at once, whatever its payload, has made no storage-port call and
\* leaves the table and its sequence alone.
C1_CancelledAtEntry ==
    [][\A g \in Goroutines :
          (pc[g] = "idle" /\ pc'[g] # "idle" /\ ctxDone'[g])
          => /\ pc'[g] = "done"
             /\ code'[g] = "Canceled"
             /\ calls'[g] = <<>>
             /\ rows' = rows
             /\ seq' = seq]_vars

\* An Update with an out-of-range rating for an id that has no record was
\* entered with a cancelled context and has returned Canceled.
C1_Witness ==
    /\ Done("g1")
    /\ req["g1"].op = "Update"
    /\ req["g1"].rating = 11
    /\ req["g1"].id \notin DOMAIN rows
    /\ code["g1"] = "Canceled"
    /\ calls["g1"] = <<>>

\* C2: with a context that is not cancelled, Create and GetByRating end in
\* InvalidArgument exactly when the rating is below 1 or above 10; an Update
\* that fetched its record ends in InvalidArgument exactly when the rating is
\* nonzero and outside [1,10]; an Update with rating 0 is not rejected and
\* leaves the stored rating as it was.
C2_RatingValidation ==
    \A g \in Goroutines :
        (Done(g) /\ ~ctxDone[g]) =>
            LET r == req[g].rating
                id == req[g].id
            IN /\ req[g].op \in {"Create", "GetByRating"}
                    => (code[g] = "InvalidArgument" <=> (r < 1 \/ r > 10))
               /\ (req[g].op = "Update" /\ id \in DOMAIN pre[g] /\ Fetched(g))
                    => /\ code[g] = "InvalidArgument" <=> (r # 0 /\ (r < 1 \/ r > 10))
                       /\ r = 0 => /\ code[g] # "InvalidArgument"
                                   /\ id \in DOMAIN rows
                                   /\ rows[id].rating = pre[g][id].rating
                                   /\ (~DbFailed(g) => code[g] = "OK")

\* An Update with rating 0 and a new content succeeded on a record whose
\* rating is 10, the upper end of the range.
C2_Witness ==
    /\ Done("g1")
    /\ req["g1"].op = "Update"
    /\ req["g1"].rating = 0
    /\ req["g1"].content = "fine"
    /\ code["g1"] = "OK"
    /\ req["g1"].id \in DOMAIN rows
    /\ rows[req["g1"].id].rating = 10

\* C3 as stated: a GetByID that passed the entry check, for an id that has no
\* record, ends in NotFound.
C3_MissingIsAlwaysNotFound ==
    \A g \in Goroutines :
        (Done(g) /\ req[g].op = "GetByID" /\ req[g].id \notin DOMAIN pre[g]
            /\ code[g] # "Canceled")
        => code[g] = "NotFound"

\* C3 amended: a GetByID that passed the entry check, for an id that has no
\* record, ends in NotFound unless the context is cancelled by the time the
\* repository looks at it or the query fails; then it ends in Internal.
C3_MissingIsNotFoundUnlessStorageFails ==
    \A g \in Goroutines :
        (Done(g) /\ req[g].op = "GetByID" /\ req[g].id \notin DOMAIN pre[g]
            /\ code[g] # "Canceled")
        => /\ calls[g] = <<"GetByID">>
           /\ IF ctxDone[g] \/ DbFailed(g) THEN code[g] = "Internal"
              ELSE code[g] = "NotFound"

\* A GetByID for an id that has no record, in a table that is not empty, has
\* returned NotFound.
C3_Witness ==
    /\ Done("g1")
    /\ req["g1"].op = "GetByID"
    /\ req["g1"].id \notin DOMAIN rows
    /\ rows # <<>>
    /\ ~ctxDone["g1"]
    /\ code["g1"] = "NotFound"

\* C4: a Delete for an id that has no record never calls the storage Delete:
\* its only storage call, if any, is the one GetByID; the table is left as it
\* was; and when the context is not cancelled and the lookup does not fail it
\* ends in NotFound after that one GetByID.
C4_DeleteMissing ==
    \A g \in Goroutines :
        (Done(g) /\ req[g].op = "Delete" /\ req[g].id \notin DOMAIN pre[g])
        => /\ calls[g] \in {<<>>, <<"GetByID">>}
           /\ rows = pre[g]
           /\ (~ctxDone[g] /\ ~DbFailed(g))
                => (code[g] = "NotFound" /\ calls[g] = <<"GetByID">>)

\* A Delete for an id that has no record, in a table that is not empty, has
\* returned NotFound.
C4_Witness ==
    /\ Done("g1")
    /\ req["g1"].op = "Delete"
    /\ req["g1"].id \notin DOMAIN rows
    /\ rows # <<>>
    /\ code["g1"] = "NotFound"
    /\ calls["g1"] = <<"GetByID">>

\* C5: a successful Update stores and returns the merged record: the content
\* of the request when it is not empty and the stored content otherwise, the
\* rating of the request when it is not zero and the stored rating otherwise.
C5_UpdateMerges ==
    \A g \in Goroutines :
        (Done(g) /\ req[g].op = "Update" /\ code[g] = "OK") =>
            LET id == req[g].id
            IN /\ id \in DOMAIN pre[g]
               /\ id \in DOMAIN rows
               /\ LET content == IF req[g].content # "" THEN req[g].content
                                 ELSE pre[g][id].content
                      rating == IF req[g].rating # 0 THEN req[g].rating
                                ELSE pre[g][id].rating
                  IN /\ rows[id].content = content
                     /\ rows[id].rating = rating
                     /\ \E p \in resp[g] :
                            /\ resp[g] = {p}
                            /\ p.id = id
                            /\ p.content = content
                            /\ p.rating = rating

\* An Update with an empty content and rating 0 has succeeded.
C5_Witness ==
    /\ Done("g1")
    /\ req["g1"].op = "Update"
    /\ req["g1"].content = ""
    /\ req["g1"].rating = 0
    /\ code["g1"] = "OK"
    /\ rows[req["g1"].id].content = "great"
    /\ rows[req["g1"].id].rating = 10

\* The response review p carries the identity, content and rating of row.
SameReview(p, row) ==
    /\ p.id = row.id
    /\ p.mediaId = row.mediaId
    /\ p.userId = row.userId
    /\ p.content = row.content
    /\ p.rating = row.rating

\* C6: Create then GetByID round trip.  The record a successful Create
\* returns carries a fresh id and the id, mediaId, userId, content and rating
\* of the row stored under that id; a stored row changes or goes only in the
\* storage write of an Update or Delete of its id; and a successful
\* GetByID(i) returns those five fields of the row stored under i.
C6_CreateGetByIDRoundTrip ==
    [][\A g \in Goroutines :
          /\ (pc[g] = "Create" /\ pc'[g] = "done" /\ code'[g] = "OK")
                => \E p \in resp'[g] :
                      /\ resp'[g] = {p}
                      /\ p.id \notin DOMAIN rows
                      /\ p.id \in DOMAIN rows'
                      /\ SameReview(p, rows'[p.id])
          /\ (pc[g] = "GetByID" /\ pc'[g] = "done" /\ code'[g] = "OK")
                => \E p \in resp'[g] :
                      /\ resp'[g] = {p}
                      /\ p.id = req[g].id
                      /\ p.id \in DOMAIN rows
                      /\ SameReview(p, rows[p.id])
          /\ \A i \in DOMAIN rows :
                (i \notin DOMAIN rows' \/ rows'[i] # rows[i])
                => \E h \in Goroutines :
                      /\ pc[h] \in {"UpdateSave", "DeleteRemove"}
                      /\ pc'[h] = "done"
                      /\ req[h].id = i]_vars

\* A GetByID of the second record created has returned it, with the fields
\* it was created with.
C6_Witness ==
    /\ Done("g1")
    /\ req["g1"].op = "GetByID"
    /\ req["g1"].id = 2
    /\ code["g1"] = "OK"
    /\ \E p \in resp["g1"] :
          /\ p.id = 2
          /\ p.mediaId = 8
          /\ p.userId = 4
          /\ p.content = "fine"
          /\ p.rating = 1

\* The keys of the rows a list request asks for.
Matching(r) ==
    {i \in DOMAIN rows :
        CASE r.op = "GetAll" -> TRUE
          [] r.op = "GetByRating" -> rows[i].rating = r.rating
          [] r.op = "GetByUser" -> rows[i].userId = r.userId
          [] r.op = "GetByMedia" -> rows[i].mediaId = r.mediaId}

\* C7: a list request whose context is not cancelled and whose statement does
\* not fail (for GetByRating: whose rating passed the range check) succeeds
\* and returns exactly the stored records that match its filter, an empty
\* collection when none does.
C7_ListsReturnMatching ==
    \A g \in Goroutines :
        (/\ Done(g)
         /\ req[g].op \in {"GetAll", "GetByRating", "GetByUser", "GetByMedia"}
         /\ ~ctxDone[g]
         /\ ~DbFailed(g)
         /\ req[g].op = "GetByRating" => req[g].rating \in 1 .. 10)
        => /\ code[g] = "OK"
           /\ {p.id : p \in resp[g]} = Matching(req[g])
           /\ Cardinality(resp[g]) = Cardinality(Matching(req[g]))
           /\ \A p \in resp[g] : SameReview(p, rows[p.id])

\* A GetByUser has returned one of the two stored records: the other one is
\* of another user.
C7_Witness ==
    /\ Done("g1")
    /\ req["g1"].op = "GetByUser"
    /\ code["g1"] = "OK"
    /\ DOMAIN rows = {1, 2}
    /\ rows[1].mediaId = rows[2].mediaId
    /\ {p.id : p \in resp["g1"]} = {2}

\* C8: the scenario's requests yield, in order: a record with id 1 and
\* rating 9; that same record; the record with content "great" and rating
\* 5; a list containing the record with id 1; success, the record gone;
\* NotFound.
C8_Scenario ==
    \A g \in Goroutines :
        Done(g) =>
            /\ req[g] = Scenario[1]
                => /\ code[g] = "OK"
                   /\ \E p \in resp[g] :
                         /\ resp[g] = {p}
                         /\ p.id = 1 /\ p.mediaId = 7 /\ p.userId = 3
                         /\ p.content = "great" /\ p.rating = 9
                   /\ HoldsOnly(9)
            /\ (req[g] = Scenario[2] /\ pre[g] # <<>>)
                => /\ code[g] = "OK"
                   /\ \E p \in resp[g] :
                         /\ resp[g] = {p}
                         /\ p.id = 1 /\ p.mediaId = 7 /\ p.userId = 3
                         /\ p.content = "great" /\ p.rating = 9
                         /\ p.createdAt = FormatRFC3339(rows[1].createdAt)
                         /\ p.updatedAt = p.createdAt
                   /\ HoldsOnly(9)
            /\ req[g] = Scenario[3]
                => /\ code[g] = "OK"
                   /\ \E p \in resp[g] :
                         /\ resp[g] = {p}
                         /\ p.id = 1 /\ p.mediaId = 7 /\ p.userId = 3
                         /\ p.content = "great" /\ p.rating = 5
                   /\ HoldsOnly(5)
                   /\ rows[1].content = "great"
            /\ req[g] = Scenario[4]
                => /\ code[g] = "OK"
                   /\ \E p \in resp[g] : p.id = 1 /\ p.rating = 5
            /\ req[g] = Scenario[5]
                => /\ code[g] = "OK"
                   /\ rows = <<>>
            /\ (req[g] = Scenario[6] /\ pre[g] = <<>>)
                => /\ code[g] = "NotFound"
                   /\ resp[g] = {}

\* The last request of the scenario, the GetByID after the Delete, has
\* returned NotFound.
C8_Witness ==
    /\ Done("g1")
    /\ req["g1"] = Scenario[6]
    /\ rows = <<>>
    /\ seq = 2
    /\ code["g1"] = "NotFound"

\* C9 as stated: a request that ends in InvalidArgument has made no
\* storage-port call.
C9_InvalidArgumentBeforeAnyStorageCall ==
    \A g \in Goroutines :
        (Done(g) /\ code[g] = "InvalidArgument") => calls[g] = <<>>

\* C9 amended: a request that ends in InvalidArgument has made no storage
\* write and left the table as it was; a Create or GetByRating has made no
\* storage-port call at all, an Update exactly one, the GetByID that fetched
\* its record.  A Create or GetByRating whose rating is out of range never
\* reaches the storage port.
C9_InvalidArgumentBeforeAnyStorageWrite ==
    \A g \in Goroutines :
        Done(g) =>
            /\ code[g] = "InvalidArgument"
                => /\ rows = pre[g]
                   /\ req[g].op \in {"Create", "GetByRating", "Update"}
                   /\ req[g].op \in {"Create", "GetByRating"} => calls[g] = <<>>
                   /\ req[g].op = "Update"
                        => (calls[g] = <<"GetByID">> /\ errs[g] = <<"nil">>)
            /\ (req[g].op \in {"Create", "GetByRating"}
                    /\ (req[g].rating < 1 \/ req[g].rating > 10))
                => calls[g] = <<>>

\* An Update with a new content and a rating above the range has ended in
\* InvalidArgument after fetching its record.
C9_Witness ==
    /\ Done("g1")
    /\ req["g1"].op = "Update"
    /\ req["g1"].content = "fine"
    /\ req["g1"].rating = 11
    /\ code["g1"] = "InvalidArgument"
    /\ calls["g1"] = <<"GetByID">>
    /\ rows[req["g1"].id].content = "great"

\* C10: the not-found sentinel of the storage GetByID is the only storage
\* failure with a kind of its own: it ends the request in NotFound, and
\* NotFound has no other origin; any other error of any storage-port call
\* ends the request in Internal.
C10_StorageFailuresAreInternal ==
    \A g \in Goroutines :
        Done(g) =>
            /\ (\E i \in DOMAIN errs[g] : errs[g][i] \notin {"nil", ErrReviewNotFound})
                => code[g] = "Internal"
            /\ (\E i \in DOMAIN errs[g] : errs[g][i] = ErrReviewNotFound)
                => code[g] = "NotFound"
            /\ code[g] = "NotFound"
                => (calls[g] = <<"GetByID">> /\ errs[g] = <<ErrReviewNotFound>>)
            /\ code[g] = "Internal"
                => (errs[g] # <<>> /\ errs[g][Len(errs[g])] \in {ErrDB, ErrCanceled})

\* A Delete whose existence check found the record has ended in Internal
\* because its delete statement failed.
C10_Witness ==
    /\ Done("g1")
    /\ req["g1"].op = "Delete"
    /\ calls["g1"] = <<"GetByID", "Delete">>
    /\ errs["g1"] = <<"nil", ErrDB>>
    /\ code["g1"] = "Internal"
    /\ req["g1"].id \in DOMAIN rows

\* C11 as stated: cancellation is seen at the entry check only.  A request
\* that passed the entry check and none of whose statements failed in the
\* database got no context error from a storage call and did not end in
\* Internal, and an Update with an acceptable rating or a Delete of a record
\* that was there made both its calls, the fetch and the write.
C11_CancellationOnlyAtEntry ==
    \A g \in Goroutines :
        (Done(g) /\ code[g] # "Canceled" /\ ~DbFailed(g))
        => /\ \A i \in DOMAIN errs[g] : errs[g][i] # ErrCanceled
           /\ code[g] # "Internal"
           /\ (/\ req[g].op \in {"Update", "Delete"}
               /\ req[g].id \in DOMAIN pre[g]
               /\ code[g] # "InvalidArgument")
              => Len(calls[g]) = 2

\* C11 amended: the context is looked at again at the start of every
\* storage-port call.  A call that finds it cancelled returns the context's
\* error without running its statement: the table and the sequence stay as
\* they are, the request ends in Internal and makes no further call.  A
\* finished request that no call found cancelled and none of whose statements
\* failed did not end in Internal.
C11_CancellationAtEveryStorageCall ==
    [][\A g \in Goroutines :
          /\ (pc[g] \notin {"idle", "done"} /\ ctxDone'[g])
             => /\ pc'[g] = "done"
                /\ code'[g] = "Internal"
                /\ Len(calls'[g]) = Len(calls[g]) + 1
                /\ errs'[g] = Append(errs[g], ErrCanceled)
                /\ rows' = rows
                /\ seq' = seq
          /\ (Done(g) /\ ~ctxDone[g] /\ ~DbFailed(g)) => code[g] # "Internal"]_vars

\* A Delete whose existence check found the record met a cancelled context at
\* its delete call: it has ended in Internal and the record is still stored.
C11_Witness ==
    /\ Done("g1")
    /\ req["g1"].op = "Delete"
    /\ ctxDone["g1"]
    /\ calls["g1"] = <<"GetByID", "Delete">>
    /\ errs["g1"] = <<"nil", ErrCanceled>>
    /\ code["g1"] = "Internal"
    /\ req["g1"].id \in DOMAIN rows
    /\ rows = pre["g1"]

\* The request of goroutine g is an Update that has returned success.
Updated(g) == Done(g) /\ req[g].op = "Update" /\ code[g] = "OK"

\* C12: an Update persists the whole row as it fetched and merged it, with no
\* regard to what is stored by then.  The step in which an Update's save
\* succeeds leaves under the record's key exactly the record that Update held;
\* and once two overlapping Updates of one id have both returned success, the
\* stored record is in every column the record of one of them, so where each
\* fetched before the other persisted the change of the first to persist is
\* gone.
C12_LastWriteWins ==
    [][/\ \A g \in Goroutines :
             (pc[g] = "UpdateSave" /\ code'[g] = "OK")
             => /\ gormReview[g].id \in DOMAIN rows'
                /\ rows'[gormReview[g].id] = [gormReview[g] EXCEPT !.updatedAt = now]
       /\ (/\ Updated("g1")
           /\ Updated("g2")
           /\ req["g1"].id = req["g2"].id)
          => /\ req["g1"].id \in DOMAIN rows
             /\ rows[req["g1"].id] \in {gormReview["g1"], gormReview["g2"]}]_vars

\* Two Updates of record 1, the first changing only the content and the
\* second only the rating, each fetched the record before the other
\* persisted; both have returned success, the second persisted last, and the
\* stored record has the new rating and the old content.
C12_Witness ==
    /\ Updated("g1")
    /\ Updated("g2")
    /\ req["g1"] = Request("Update", 1, 0, 0, "fine", 0)
    /\ req["g2"] = Request("Update", 1, 0, 0, "", 10)
    /\ pre["g1"][1].content = "great" /\ pre["g1"][1].rating = 1
    /\ gormReview["g1"].content = "fine" /\ gormReview["g1"].rating = 1
    /\ gormReview["g2"].content = "great" /\ gormReview["g2"].rating = 10
    /\ \E p \in resp["g1"] : p.content = "fine"
    /\ rows[1].content = "great"
    /\ rows[1].rating = 10

\* C13 as stated: a key the sequence has handed out and whose record is gone,
\* which is a key whose Delete has succeeded, never has a stored record
\* again, whatever step any request takes.
C13_DeleteIsPermanent ==
    [][\A i \in 1 .. (seq - 1) :
          i \notin DOMAIN rows => i \notin DOMAIN rows']_vars

\* C14: every stored record has a rating from 1 to 10, and a request that is
\* about to make, or has made, the storage call Create, Update or GetByRating
\* hands that call a rating from 1 to 10.
C14_RatingsInRange ==
    /\ \A i \in DOMAIN rows : rows[i].rating >= 1 /\ rows[i].rating <= 10
    /\ \A g \in Goroutines :
          /\ (pc[g] \in {"Create", "GetByRating"}
                \/ \E k \in DOMAIN calls[g] : calls[g][k] \in {"Create", "GetByRating"})
             => (req[g].rating >= 1 /\ req[g].rating <= 10)
          /\ (pc[g] = "UpdateSave" \/ \E k \in DOMAIN calls[g] : calls[g][k] = "Update")
             => (gormReview[g].rating >= 1 /\ gormReview[g].rating <= 10)

\* An Update has raised the rating of a stored record from 1 to 10, the two
\* ends of the range.
C14_Witness ==
    /\ Updated("g1")
    /\ req["g1"].rating = 10
    /\ calls["g1"] = <<"GetByID", "Update">>
    /\ pre["g1"][req["g1"].id].rating = 1
    /\ rows[req["g1"].id].rating = 10

\* C15: a request ends in one of the five outcomes, and it has an outcome
\* exactly when it has ended; a request that ended in an error left the
\* stored records as they were when it was invoked, so an Update with a new
\* content and a rating out of range (0 asks for no change of the rating) has
\* not stored the content.
C15_NoPartialSuccess ==
    \A g \in Serial :
        /\ Done(g) <=> code[g] \in {"OK", "InvalidArgument", "NotFound", "Canceled", "Internal"}
        /\ ~Done(g) => code[g] = "none"
        /\ (Done(g) /\ code[g] # "OK") => rows = pre[g]
        /\ (/\ Done(g)
            /\ req[g].op = "Update"
            /\ req[g].content # ""
            /\ (req[g].rating < 0 \/ req[g].rating > 10)
            /\ Fetched(g))
           => /\ code[g] = "InvalidArgument"
              /\ rows[req[g].id].content = pre[g][req[g].id].content

\* An Update with a new content and a rating below the range has fetched its
\* record, merged the content into its own copy and ended in InvalidArgument;
\* the stored record still has the old content.
C15_Witness ==
    /\ Done("g1")
    /\ req["g1"].op = "Update"
    /\ req["g1"].content = "fine"
    /\ req["g1"].rating = -1
    /\ code["g1"] = "InvalidArgument"
    /\ gormReview["g1"].content = "fine"
    /\ rows[req["g1"].id].content = "great"
    /\ rows = pre["g1"]

\* C16: the step in which an Update's save succeeds writes a record that
\* carries the id of the request, stores it under that id, and leaves the
\* stored record's id, mediaId, userId and createdAt as they were before the
\* step.
C16_UpdateKeepsIdentity ==
    [][\A g \in Goroutines :
          (pc[g] = "UpdateSave" /\ code'[g] = "OK")
          => /\ gormReview[g].id = req[g].id
             /\ req[g].id \in DOMAIN rows'
             /\ rows'[req[g].id].id = req[g].id
             /\ DOMAIN rows' = DOMAIN rows \cup {req[g].id}
             /\ req[g].id \in DOMAIN rows
                => /\ rows'[req[g].id].mediaId = rows[req[g].id].mediaId
                   /\ rows'[req[g].id].userId = rows[req[g].id].userId
                   /\ rows'[req[g].id].createdAt = rows[req[g].id].createdAt]_vars

\* A record created at time 1 got a new content by an Update at time 3: it
\* still has its id, media, user and time of creation, and only the time of
\* its last update has moved.
C16_Witness ==
    /\ Updated("g1")
    /\ req["g1"] = Request("Update", 1, 0, 0, "fine", 0)
    /\ pre["g1"][1].content = "great"
    /\ pre["g1"][1].createdAt = 1
    /\ pre["g1"][1].updatedAt = 1
    /\ rows[1] = [id |-> 1, mediaId |-> 7, userId |-> 3, content |-> "fine",
                  rating |-> 1, createdAt |-> 1, updatedAt |-> 3]

\* The records other than the one of key id are the same before and after
\* the step.
OthersUnchanged(id) ==
    \A i \in (DOMAIN rows \cup DOMAIN rows') \ {id} :
        /\ i \in DOMAIN rows
        /\ i \in DOMAIN rows'
        /\ rows'[i] = rows[i]

\* C17: every step of a request changes at most the record the request is
\* about.  No step of GetByID, GetAll, GetByRating, GetByUser or GetByMedia
\* changes the table, nor does handing a response over; a step of Update or
\* Delete leaves every record of another id as it is and adds none; a step of
\* Create leaves every record of the table as it is, and adds exactly one
\* record when it ends the request in success and none otherwise.
C17_OnlyTheTargetChanges ==
    [][\A g \in Goroutines :
          pc'[g] # pc[g]
          => /\ req'[g].op \in {"none", "GetByID", "GetAll", "GetByRating",
                                "GetByUser", "GetByMedia"}
                => rows' = rows
             /\ req'[g].op \in {"Update", "Delete"} => OthersUnchanged(req'[g].id)
             /\ req'[g].op = "Create"
                => /\ \A i \in DOMAIN rows : i \in DOMAIN rows' /\ rows'[i] = rows[i]
                   /\ Cardinality(DOMAIN rows') =
                         Cardinality(DOMAIN rows) + (IF code'[g] = "OK" THEN 1 ELSE 0)]_vars

\* With two records stored a Delete of the first has succeeded: the first is
\* gone and the second is as it was.
C17_Witness ==
    /\ Done("g1")
    /\ req["g1"].op = "Delete"
    /\ req["g1"].id = 1
    /\ code["g1"] = "OK"
    /\ DOMAIN pre["g1"] = {1, 2}
    /\ DOMAIN rows = {2}
    /\ rows[2] = pre["g1"][2]

====
